---- MODULE Spec2Model ----
(***************************************************************************)
(* Model of json_to_csv_expanded_natsort.py: the chunk-index extractor,    *)
(* the natural-order sort key, the JSON flattener and the directory-to-CSV *)
(* job (schema aggregation and tabular writer).                            *)
(*                                                                         *)
(* A Python str is a sequence of one-character tokens; the token "^2"      *)
(* stands for the single character U+00B2 (SUPERSCRIPT TWO), for which     *)
(* str.isdigit() is True while the regex class \d does not match it and    *)
(* int() rejects it.                                                       *)
(***************************************************************************)
EXTENDS Integers, Sequences, FiniteSets, TLC

VARIABLES
    pc,                  \* position of the running function
    filename,            \* extract_chunk_number: its argument
    chunk_number,        \* extract_chunk_number: its return value
    data,                \* flatten_json: the parsed document
    items,               \* flatten_json: the returned mapping
    s,                   \* natural_sort_key: first string
    t,                   \* natural_sort_key: second string
    key_s,               \* natural_sort_key(s), or Raised
    key_t,               \* natural_sort_key(t), or Raised
    dir_exists,          \* the input path exists and is a directory
    files,               \* the *.json entries of the input directory
    json_files,          \* the list of candidate files, as globbed then sorted
    idx,                 \* number of candidate files the first pass has attempted
    attempted,           \* names of the files opened so far, in order
    warnings,            \* names of the files a warning was printed for
    flattened_data_list, \* one flattened record per parsed document
    all_fieldnames,      \* the key-union set
    fieldnames,          \* the header (Schema)
    output,              \* the output file: "absent", "open" or "closed"
    csv_header,          \* header row written to the output file
    csv_rows,            \* data rows written to the output file
    error,               \* the error the job aborted with, or "none"
    input_stem,          \* chunk_audio_file: input_file.stem
    actual_chunks,       \* chunk_audio_file: total_samples // chunk_size
    chunks_created,      \* chunk_audio_file: its counter and return value
    chunk_files,         \* names of the chunk files written, in order
    chunk_indices        \* extract_chunk_number of each chunk file name

chunkvars == <<filename, chunk_number>>
flatvars == <<data, items>>
keyvars == <<s, t, key_s, key_t>>
jobvars == <<dir_exists, files, json_files, idx, attempted, warnings,
             flattened_data_list, all_fieldnames, fieldnames, output,
             csv_header, csv_rows, error>>
segvars == <<input_stem, actual_chunks, chunks_created, chunk_files,
             chunk_indices>>
vars == <<pc, chunkvars, flatvars, keyvars, jobvars, segvars>>

----------------------------------------------------------------------------
(* Bounds of the model.                                                    *)

\* segments a filename of the extractor's input set is built from
MaxSegs == 5

\* length of the strings the sort key is applied to
MaxKeyLen == 3

\* nodes (scalars, lists, dicts) of a document the flattener is applied to
MaxNodes == 4

\* files in the input directory
MaxFiles == 3

\* segments the stem of an input audio file is built from
MaxStemSegs == 3

\* chunks an input audio file holds
MaxChunks == 10

----------------------------------------------------------------------------
(* Characters and strings.                                                 *)

\* The characters the model uses, in ascending code-point order.
Chars ==
    << " ", "'", ",", ".",
       "0", "1", "2", "3", "4", "5", "6", "7", "8", "9", ":",
       "A", "B", "N", "T", "Y",
       "[", "]", "_",
       "a", "b", "c", "e", "f", "g", "h", "i", "j", "k", "l", "m", "n",
       "o", "r", "s", "t", "u", "v", "w", "x", "y",
       "{", "}", "^2" >>

\* ord(c): only the order of code points is used
ord(c) == CHOOSE i \in 1..Len(Chars) : Chars[i] = c

\* the regex class \d
IsReDigit(c) == c \in {"0", "1", "2", "3", "4", "5", "6", "7", "8", "9"}

\* str.isdigit() of one character
IsDigitChar(c) == IsReDigit(c) \/ c = "^2"

\* str.lower() of one character
LowerChar(c) ==
    CASE c = "A" -> "a"
      [] c = "B" -> "b"
      [] c = "N" -> "n"
      [] c = "T" -> "t"
      [] c = "Y" -> "y"
      [] OTHER -> c

\* str.lower()
Lower(str) == [i \in 1..Len(str) |-> LowerChar(str[i])]

\* str.isdigit(): non-empty and every character a digit
IsDigitStr(str) == Len(str) > 0 /\ \A i \in 1..Len(str) : IsDigitChar(str[i])

\* the value int() gives one decimal digit
DigitVal(c) == ord(c) - ord("0")

\* int(str): the decimal value, or ValueError
RECURSIVE IntOf(_)
IntOf(str) ==
    IF Len(str) = 0 \/ \E i \in 1..Len(str) : ~IsReDigit(str[i]) THEN -1
    ELSE IF Len(str) = 1 THEN DigitVal(str[1])
    ELSE IntOf(SubSeq(str, 1, Len(str) - 1)) * 10 + DigitVal(str[Len(str)])

\* str(n) for a non-negative int
RECURSIVE StrOfInt(_)
StrOfInt(n) ==
    IF n < 10 THEN <<Chars[ord("0") + n]>>
    ELSE StrOfInt(n \div 10) \o <<Chars[ord("0") + (n % 10)]>>

\* str < str: lexicographic by code point
RECURSIVE StrLess(_, _)
StrLess(a, b) ==
    IF Len(b) = 0 THEN FALSE
    ELSE IF Len(a) = 0 THEN TRUE
    ELSE IF a[1] # b[1] THEN ord(a[1]) < ord(b[1])
    ELSE StrLess(Tail(a), Tail(b))

\* the end of the maximal run of \d characters that starts at position i
RunEnd(str, i) ==
    CHOOSE j \in i..Len(str) :
        /\ \A k \in i..j : IsReDigit(str[k])
        /\ (j = Len(str) \/ ~IsReDigit(str[j + 1]))

\* the start positions of the maximal \d runs, i.e. of the matches of \d+
RunStarts(str) ==
    {i \in 1..Len(str) : IsReDigit(str[i]) /\ (i = 1 \/ ~IsReDigit(str[i - 1]))}

\* concatenation of a sequence of strings
RECURSIVE Concat(_)
Concat(ss) == IF Len(ss) = 0 THEN <<>> ELSE ss[1] \o Concat(Tail(ss))

\* all sequences over S of length 0..n
SeqsUpTo(S, n) == UNION {[1..k -> S] : k \in 0..n}

----------------------------------------------------------------------------
(* extract_chunk_number and calculate_time_offset.                         *)

chunk_marker == <<"c", "h", "u", "n", "k", "_">>

\* start positions of the matches of chunk_(\d+) in str
ChunkMatches(str) ==
    {i \in 1..Len(str) :
        /\ i + Len(chunk_marker) <= Len(str)
        /\ SubSeq(str, i, i + Len(chunk_marker) - 1) = chunk_marker
        /\ IsReDigit(str[i + Len(chunk_marker)])}

Min(S) == CHOOSE x \in S : \A y \in S : x <= y
Max(S) == CHOOSE x \in S : \A y \in S : x >= y

\* a bug the extractor could have: the fallback takes the first digit run
extract_chunk_number_first(name) ==
    IF ChunkMatches(name) # {}
    THEN LET g == Min(ChunkMatches(name)) + Len(chunk_marker)
         IN  IntOf(SubSeq(name, g, RunEnd(name, g)))
    ELSE IF RunStarts(name) # {}
    THEN LET g == Min(RunStarts(name))
         IN  IntOf(SubSeq(name, g, RunEnd(name, g)))
    ELSE 0

extract_chunk_number(name) ==
    IF ChunkMatches(name) # {}
    THEN \* re.search: the leftmost match; group(1) is the greedy digit run
         LET g == Min(ChunkMatches(name)) + Len(chunk_marker)
         IN  IntOf(SubSeq(name, g, RunEnd(name, g)))
    ELSE IF RunStarts(name) # {}
    THEN \* re.findall(r'\d+')[-1]
         LET g == Max(RunStarts(name))
         IN  IntOf(SubSeq(name, g, RunEnd(name, g)))
    ELSE 0

calculate_time_offset(n) == IF n - 1 > 0 THEN n - 1 ELSE 0

\* the filenames the extractor is applied to
Segments ==
    { <<"c", "h", "u", "n", "k">>, <<"_">>, <<"0">>, <<"1">>, <<"2">>, <<"x">> }

Filenames == {Concat(ss) : ss \in SeqsUpTo(Segments, MaxSegs)}

NoValue == <<"none">>
NoKey == [raised |-> FALSE, toks |-> <<>>]

IdleChunk == filename = <<>> /\ chunk_number = NoValue
IdleFlat == data = NoValue /\ items = NoValue
IdleKey == s = <<>> /\ t = <<>> /\ key_s = NoKey /\ key_t = NoKey
IdleSegment ==
    /\ input_stem = <<>> /\ actual_chunks = 0 /\ chunks_created = 0
    /\ chunk_files = <<>> /\ chunk_indices = <<>>
IdleJob ==
    /\ dir_exists = FALSE /\ files = {} /\ json_files = <<>> /\ idx = 0
    /\ attempted = <<>> /\ warnings = <<>> /\ flattened_data_list = <<>>
    /\ all_fieldnames = {} /\ fieldnames = <<>> /\ output = "absent"
    /\ csv_header = <<>> /\ csv_rows = <<>> /\ error = "none"

InitChunk ==
    /\ pc = "extract"
    /\ filename \in Filenames
    /\ chunk_number = NoValue
    /\ IdleFlat /\ IdleKey /\ IdleJob /\ IdleSegment

ExtractChunkNumber ==
    /\ pc = "extract"
    /\ chunk_number' = extract_chunk_number(filename)
    /\ pc' = "extracted"
    /\ UNCHANGED <<filename, flatvars, keyvars, jobvars, segvars>>

NextChunk == ExtractChunkNumber

SpecChunk == InitChunk /\ [][NextChunk]_vars

----------------------------------------------------------------------------
(* natural_sort_key.                                                       *)

\* re.split(r'(\d+)', str): text, digits, text, ..., digits, text
RECURSIVE re_split(_)
re_split(str) ==
    IF RunStarts(str) = {} THEN <<str>>
    ELSE LET i == Min(RunStarts(str))
             j == RunEnd(str, i)
         IN  <<SubSeq(str, 1, i - 1), SubSeq(str, i, j)>>
                 \o re_split(SubSeq(str, j + 1, Len(str)))

\* one element of a sort key: an int or a str ("ValueError": int() raised)
IntTok(n) == [kind |-> "int", n |-> n, txt |-> <<>>]
TxtTok(x) == [kind |-> "str", n |-> 0, txt |-> x]
BadTok == [kind |-> "ValueError", n |-> 0, txt |-> <<>>]

\* a bug the key could have: digit runs kept as text
KeyTokenText(text) == TxtTok(Lower(text))

\* int(text) if text.isdigit() else text.lower()
KeyToken(text) ==
    IF IsDigitStr(text)
    THEN IF IntOf(text) < 0 THEN BadTok ELSE IntTok(IntOf(text))
    ELSE TxtTok(Lower(text))

\* the list comprehension over re.split: the key, or the exception escaping it
natural_sort_key(str) ==
    LET parts == re_split(str)
        toks == [i \in 1..Len(parts) |-> KeyToken(parts[i])]
    IN  IF \E i \in 1..Len(toks) : toks[i].kind = "ValueError"
        THEN [raised |-> TRUE, toks |-> <<>>]
        ELSE [raised |-> FALSE, toks |-> toks]

\* list < list on two keys: "lt", "eq", "gt", or "TypeError" when the first
\* differing elements are an int and a str
RECURSIVE KeyCmp(_, _)
KeyCmp(a, b) ==
    IF Len(a) = 0 /\ Len(b) = 0 THEN "eq"
    ELSE IF Len(a) = 0 THEN "lt"
    ELSE IF Len(b) = 0 THEN "gt"
    ELSE IF a[1] = b[1] THEN KeyCmp(Tail(a), Tail(b))
    ELSE IF a[1].kind # b[1].kind THEN "TypeError"
    ELSE IF a[1].kind = "int" THEN (IF a[1].n < b[1].n THEN "lt" ELSE "gt")
    ELSE IF StrLess(a[1].txt, b[1].txt) THEN "lt" ELSE "gt"

\* the strings the key is applied to
KeyChars == {"a", "A", "0", "1", "2", "^2"}

KeyStrings == SeqsUpTo(KeyChars, MaxKeyLen)

InitKey ==
    /\ pc = "key"
    /\ s \in KeyStrings
    /\ t \in KeyStrings
    /\ key_s = NoKey
    /\ key_t = NoKey
    /\ IdleChunk /\ IdleFlat /\ IdleJob /\ IdleSegment

NaturalSortKey ==
    /\ pc = "key"
    /\ key_s' = natural_sort_key(s)
    /\ key_t' = natural_sort_key(t)
    /\ pc' = "keyed"
    /\ UNCHANGED <<s, t, chunkvars, flatvars, jobvars, segvars>>

NextKey == NaturalSortKey

SpecKey == InitKey /\ [][NextKey]_vars

----------------------------------------------------------------------------
(* JSON values as json.load returns them.                                  *)

\* ty: "str", "num", "bool", "null" (scalars), "arr" (list), "obj" (dict).
\* txt: str() of a scalar; el: the elements of a list or the values of a
\* dict; ks: the keys of a dict, in insertion order.
JStr(x) == [ty |-> "str", txt |-> x, ks |-> <<>>, el |-> <<>>]
JNum(n) == [ty |-> "num", txt |-> StrOfInt(n), ks |-> <<>>, el |-> <<>>]
JTrue == [ty |-> "bool", txt |-> <<"T", "r", "u", "e">>, ks |-> <<>>, el |-> <<>>]
JNull == [ty |-> "null", txt |-> <<"N", "o", "n", "e">>, ks |-> <<>>, el |-> <<>>]
JArr(el) == [ty |-> "arr", txt |-> <<>>, ks |-> <<>>, el |-> el]
JObj(ks, el) == [ty |-> "obj", txt |-> <<>>, ks |-> ks, el |-> el]

ScalarTypes == {"str", "num", "bool", "null"}

\* isinstance(v, (dict, list))
IsContainer(v) == v.ty \in {"obj", "arr"}

\* ", ".join(parts)
RECURSIVE JoinComma(_)
JoinComma(parts) ==
    IF Len(parts) = 0 THEN <<>>
    ELSE IF Len(parts) = 1 THEN parts[1]
    ELSE parts[1] \o <<",", " ">> \o JoinComma(Tail(parts))

\* repr(v) and str(v): they differ on a str only, which repr quotes
RECURSIVE PyRepr(_)
PyRepr(v) ==
    CASE v.ty = "str" -> <<"'">> \o v.txt \o <<"'">>
      [] v.ty = "arr" ->
            <<"[">> \o JoinComma([i \in 1..Len(v.el) |-> PyRepr(v.el[i])]) \o <<"]">>
      [] v.ty = "obj" ->
            <<"{">> \o JoinComma([i \in 1..Len(v.el) |->
                        <<"'">> \o v.ks[i] \o <<"'", ":", " ">> \o PyRepr(v.el[i])])
                \o <<"}">>
      [] OTHER -> v.txt

PyStr(v) == IF v.ty = "str" THEN v.txt ELSE PyRepr(v)

\* the key natsorted compares a string by: its digit runs as ints, the text
\* between them as it is
NatsortKey(str) ==
    LET parts == re_split(str)
    IN  [i \in 1..Len(parts) |->
            IF i % 2 = 0 THEN IntTok(IntOf(parts[i])) ELSE TxtTok(parts[i])]

\* insertion of position i into an ordered sequence of positions, after every
\* position whose element is not greater: a stable sort step
RECURSIVE InsertStable(_, _, _)
InsertStable(order, i, keyOf) ==
    IF Len(order) = 0 THEN <<i>>
    ELSE IF KeyCmp(keyOf[i], keyOf[order[1]]) = "lt" THEN <<i>> \o order
    ELSE <<order[1]>> \o InsertStable(Tail(order), i, keyOf)

\* the positions 1..n stably sorted by keyOf
RECURSIVE StableOrder(_, _)
StableOrder(n, keyOf) ==
    IF n = 0 THEN <<>> ELSE InsertStable(StableOrder(n - 1, keyOf), n, keyOf)

\* a bug the flattener could have: the visiting order is the position order
sorted_items_plain(lst) == [i \in 1..Len(lst) |-> i]

\* natsorted(enumerate(lst), key=lambda x: str(x[1])): the 1-based original
\* positions of the elements, in visiting order
sorted_items(lst) ==
    StableOrder(Len(lst), [i \in 1..Len(lst) |-> NatsortKey(PyStr(lst[i]))])

----------------------------------------------------------------------------
(* flatten_json.                                                           *)

\* a dict as a function from its keys
EmptyDict == [k \in {} |-> JNull]

\* d[k] = v
Put(d, k, v) == [x \in DOMAIN d \cup {k} |-> IF x = k THEN v ELSE d[x]]

\* d.update(e)
Update(d, e) ==
    [x \in DOMAIN d \cup DOMAIN e |-> IF x \in DOMAIN e THEN e[x] ELSE d[x]]

RECURSIVE flatten_json(_, _, _)

\* a bug the flattener could have: a list inside a list is stored unflattened
ListItemDictOnly(acc, item, list_key, sep) ==
    IF item.ty = "obj"
    THEN Update(acc, flatten_json(item, list_key, sep))
    ELSE Put(acc, list_key, item)

\* one iteration of either loop over sorted_items
ListItem(acc, item, list_key, sep) ==
    IF IsContainer(item)
    THEN Update(acc, flatten_json(item, list_key, sep))
    ELSE Put(acc, list_key, item)

\* a bug the flattener could have: the suffix is the rank in visiting order
ListKeyRank(base, order, k) == base \o <<"_">> \o StrOfInt(k)

\* a bug the flattener could have: the position is left out of the key
ListKeyUnnumbered(base, order, k) == base \o <<"_">>

\* the key of the k-th visited element: f"{base}_{orig_idx + 1}"
ListKey(base, order, k) == base \o <<"_">> \o StrOfInt(order[k])

\* the loop over sorted_items, from the k-th visited element on
RECURSIVE ExpandList(_, _, _, _, _, _)
ExpandList(acc, lst, order, k, base, sep) ==
    IF k > Len(order) THEN acc
    ELSE ExpandList(
            ListItem(acc, lst[order[k]], ListKey(base, order, k), sep),
            lst, order, k + 1, base, sep)

\* the loop over data.items(), from the k-th pair on
RECURSIVE ExpandDict(_, _, _, _, _)
ExpandDict(acc, d, k, parent_key, sep) ==
    IF k > Len(d.ks) THEN acc
    ELSE LET value == d.el[k]
             new_key == IF parent_key # <<>>
                        THEN parent_key \o sep \o d.ks[k]
                        ELSE d.ks[k]
             acc2 == IF value.ty = "obj"
                     THEN Update(acc, flatten_json(value, new_key, sep))
                     ELSE IF value.ty = "arr"
                     THEN ExpandList(acc, value.el, sorted_items(value.el),
                                     1, new_key, sep)
                     ELSE Put(acc, new_key, value)
         IN  ExpandDict(acc2, d, k + 1, parent_key, sep)

item_prefix == <<"i", "t", "e", "m">>

flatten_json(v, parent_key, sep) ==
    IF v.ty = "obj" THEN ExpandDict(EmptyDict, v, 1, parent_key, sep)
    ELSE IF v.ty = "arr"
    THEN ExpandList(EmptyDict, v.el, sorted_items(v.el), 1,
                    IF parent_key # <<>> THEN parent_key ELSE item_prefix, sep)
    ELSE Put(EmptyDict, parent_key, v)

default_sep == <<"_">>

\* the documents the flattener is applied to: every JSON value of at most
\* MaxNodes nodes over these scalars and object keys
DocScalars == {JStr(<<"a">>), JStr(<<"b">>), JNum(10), JNull}

DocKeys == {<<"a">>, <<"a", "_", "1">>}

\* the sequences of m distinct object keys
KeySeqs(m) ==
    {ks \in [1..m -> DocKeys] : \A i, j \in 1..m : ks[i] = ks[j] => i = j}

RECURSIVE ValuesUpTo(_)
RECURSIVE ForestsUpTo(_)

\* the sequences of values of at most n nodes in total
ForestsUpTo(n) ==
    IF n = 0 THEN {<<>>}
    ELSE {<<>>} \cup
         UNION {{<<v>> \o f : v \in ValuesUpTo(k), f \in ForestsUpTo(n - k)} :
                    k \in 1..n}

\* the values of at most n nodes (n >= 1)
ValuesUpTo(n) ==
    DocScalars
    \cup {JArr(f) : f \in ForestsUpTo(n - 1)}
    \cup UNION {{JObj(ks, f) : ks \in KeySeqs(Len(f))} : f \in ForestsUpTo(n - 1)}

FlattenDocs == ValuesUpTo(MaxNodes)

InitFlatten ==
    /\ pc = "flatten"
    /\ data \in FlattenDocs
    /\ items = NoValue
    /\ IdleChunk /\ IdleKey /\ IdleJob /\ IdleSegment

FlattenJson ==
    /\ pc = "flatten"
    /\ items' = flatten_json(data, <<>>, default_sep)
    /\ pc' = "flattened"
    /\ UNCHANGED <<data, chunkvars, keyvars, jobvars, segvars>>

NextFlatten == FlattenJson

SpecFlatten == InitFlatten /\ [][NextFlatten]_vars

----------------------------------------------------------------------------
(* json_directory_to_csv.                                                  *)

time_offset_column ==
    <<"5", "_", "s", "e", "c", "_", "t", "i", "m", "e", "_",
      "o", "f", "f", "s", "e", "t">>

\* the exceptions the first pass catches
CaughtErrors == {"JSONDecodeError", "IOError", "UnicodeDecodeError"}

\* every ordering of the elements of a finite set
RECURSIVE Orderings(_)
Orderings(S) ==
    IF S = {} THEN {<<>>}
    ELSE UNION {{<<x>> \o q : q \in Orderings(S \ {x})} : x \in S}

\* the elements of a sequence as a set
Range(q) == {q[i] : i \in 1..Len(q)}

\* a bug the job could have: the candidate files are left in glob order
sort_by_chunk_number_skipped(paths) == paths

\* json_files.sort(key=lambda x: extract_chunk_number(x.name)): stable
sort_by_chunk_number(paths) ==
    LET keyOf == [i \in 1..Len(paths) |-> <<IntTok(extract_chunk_number(paths[i]))>>]
        order == StableOrder(Len(paths), keyOf)
    IN  [i \in 1..Len(paths) |-> paths[order[i]]]

\* a bug the job could have: the columns are sorted as plain text
sort_fieldnames_plain(names) ==
    LET keyOf == [i \in 1..Len(names) |-> <<TxtTok(names[i])>>]
        order == StableOrder(Len(names), keyOf)
    IN  [i \in 1..Len(names) |-> names[order[i]]]

\* fieldnames_list.sort(key=natural_sort_key), all keys computed: stable
sort_fieldnames(names) ==
    LET keyOf == [i \in 1..Len(names) |-> natural_sort_key(names[i]).toks]
        order == StableOrder(Len(names), keyOf)
    IN  [i \in 1..Len(names) |-> names[order[i]]]

\* some call of the key function raises
SortRaises(names) == \E i \in 1..Len(names) : natural_sort_key(names[i]).raised

\* a bug the job could have: the document's own value of the time-offset
\* column is kept
with_time_offset_kept(flat, name) ==
    IF time_offset_column \in DOMAIN flat THEN flat
    ELSE Put(flat, time_offset_column,
             JNum(calculate_time_offset(extract_chunk_number(name))))

\* flattened_data['5_sec_time_offset'] = time_offset
with_time_offset(flat, name) ==
    Put(flat, time_offset_column,
        JNum(calculate_time_offset(extract_chunk_number(name))))

\* lines 109-113: the record of a document that parsed
flattened_record(json_file, content) ==
    with_time_offset(flatten_json(content.doc, <<>>, default_sep), json_file)

\* a bug the job could have: a file that failed to parse still gets a record
records_after_file_keep_failed(records, json_file, content) ==
    IF content.status = "ok"
    THEN Append(records, flattened_record(json_file, content))
    ELSE Append(records, with_time_offset(EmptyDict, json_file))

\* lines 105-120: the try block appends, the except clause skips the file
records_after_file(records, json_file, content) ==
    IF content.status = "ok"
    THEN Append(records, flattened_record(json_file, content))
    ELSE records

\* the '' of flattened_data.get(field, '')
EmptyCell == JStr(<<>>)

\* a bug the writer could have: only the record's own keys are written
csv_row_own_keys(flat, header) == flat

\* row = {field: flattened_data.get(field, '') for field in fieldnames}
csv_row(flat, header) ==
    [f \in Range(header) |-> IF f \in DOMAIN flat THEN flat[f] ELSE EmptyCell]

\* the directories the job is run on: at most MaxFiles files, each with a
\* name from JobNames and either a document of JobDocs or unreadable content
JobNames ==
    { <<"c", "h", "u", "n", "k", "_", "0", "0", "1", ".", "j", "s", "o", "n">>,
      <<"c", "h", "u", "n", "k", "_", "0", "0", "2", ".", "j", "s", "o", "n">>,
      <<"s", "e", "g", "_", "2", ".", "j", "s", "o", "n">>,
      <<"x", ".", "j", "s", "o", "n">> }

JobDocs ==
    { JObj(<< <<"x", "1", "0">>, <<"x", "2">> >>, <<JNum(1), JStr(<<"b">>)>>),
      JObj(<< <<"A">>, <<"a">> >>, <<JNum(1), JNum(2)>>),
      JObj(<< time_offset_column >>, <<JNum(9)>>),
      JObj(<< <<"^2">> >>, <<JTrue>>) }

JobContents ==
    {[status |-> "ok", doc |-> d] : d \in JobDocs}
        \cup {[status |-> e, doc |-> JNull] : e \in CaughtErrors}

Directories ==
    UNION {[N -> JobContents] :
              N \in {M \in SUBSET JobNames : Cardinality(M) <= MaxFiles}}

Init ==
    /\ pc = "start"
    /\ dir_exists \in BOOLEAN
    /\ files \in IF dir_exists THEN Directories ELSE {<<>>}
    /\ output \in {"absent", "stale"}
    /\ json_files = <<>> /\ idx = 0 /\ attempted = <<>> /\ warnings = <<>>
    /\ flattened_data_list = <<>> /\ all_fieldnames = {} /\ fieldnames = <<>>
    /\ csv_header = <<>> /\ csv_rows = <<>> /\ error = "none"
    /\ IdleChunk /\ IdleFlat /\ IdleKey /\ IdleSegment

purevars == <<chunkvars, flatvars, keyvars, segvars>>

\* lines 81-82
CheckDirectory ==
    /\ pc = "start"
    /\ IF dir_exists
       THEN pc' = "glob" /\ error' = error
       ELSE pc' = "aborted" /\ error' = "InputDirectoryMissing"
    /\ UNCHANGED <<dir_exists, files, json_files, idx, attempted, warnings,
                   flattened_data_list, all_fieldnames, fieldnames, output,
                   csv_header, csv_rows, purevars>>

\* lines 84-90: glob lists the directory in an order of the file system's
GlobAndSort ==
    /\ pc = "glob"
    /\ \E listing \in Orderings(DOMAIN files) :
          IF listing = <<>>
          THEN /\ pc' = "aborted"
               /\ error' = "NoMatchingFiles"
               /\ json_files' = listing
          ELSE /\ pc' = "first_pass"
               /\ error' = error
               /\ json_files' = sort_by_chunk_number(listing)
    /\ UNCHANGED <<dir_exists, files, idx, attempted, warnings,
                   flattened_data_list, all_fieldnames, fieldnames, output,
                   csv_header, csv_rows, purevars>>

\* lines 104-120: one iteration of the first pass
ProcessFile ==
    /\ pc = "first_pass"
    /\ idx < Len(json_files)
    /\ LET json_file == json_files[idx + 1]
           content == files[json_file]
       IN  /\ attempted' = Append(attempted, json_file)
           /\ flattened_data_list' =
                  records_after_file(flattened_data_list, json_file, content)
           /\ all_fieldnames' =
                  IF content.status = "ok"
                  THEN all_fieldnames \cup DOMAIN flattened_record(json_file, content)
                  ELSE all_fieldnames
           /\ warnings' =
                  IF content.status = "ok" THEN warnings
                  ELSE Append(warnings, json_file)
    /\ idx' = idx + 1
    /\ UNCHANGED <<pc, dir_exists, files, json_files, fieldnames, output,
                   csv_header, csv_rows, error, purevars>>

\* a bug the job could have: the output file is opened before the check for
\* valid documents
CheckAnyValidOpensFirst ==
    /\ pc = "first_pass"
    /\ idx = Len(json_files)
    /\ output' = "open"
    /\ IF flattened_data_list = <<>>
       THEN pc' = "aborted" /\ error' = "NoValidDocuments"
       ELSE pc' = "schema" /\ error' = error
    /\ UNCHANGED <<dir_exists, files, json_files, idx, attempted, warnings,
                   flattened_data_list, all_fieldnames, fieldnames,
                   csv_header, csv_rows, purevars>>

\* a bug the job could have: any file that failed aborts the job
CheckAnyValidStrict ==
    /\ pc = "first_pass"
    /\ idx = Len(json_files)
    /\ IF Len(flattened_data_list) < Len(json_files)
       THEN pc' = "aborted" /\ error' = "NoValidDocuments"
       ELSE pc' = "schema" /\ error' = error
    /\ UNCHANGED <<dir_exists, files, json_files, idx, attempted, warnings,
                   flattened_data_list, all_fieldnames, fieldnames, output,
                   csv_header, csv_rows, purevars>>

\* lines 122-123
CheckAnyValid ==
    /\ pc = "first_pass"
    /\ idx = Len(json_files)
    /\ IF flattened_data_list = <<>>
       THEN pc' = "aborted" /\ error' = "NoValidDocuments"
       ELSE pc' = "schema" /\ error' = error
    /\ UNCHANGED <<dir_exists, files, json_files, idx, attempted, warnings,
                   flattened_data_list, all_fieldnames, fieldnames, output,
                   csv_header, csv_rows, purevars>>

\* lines 125-133: list(all_fieldnames) is in the set's iteration order
BuildSchema ==
    /\ pc = "schema"
    /\ all_fieldnames' = all_fieldnames \ {time_offset_column}
    /\ \E fieldnames_list \in Orderings(all_fieldnames') :
          IF SortRaises(fieldnames_list)
          THEN /\ pc' = "aborted"
               /\ error' = "ValueError"
               /\ fieldnames' = fieldnames
          ELSE /\ pc' = "open"
               /\ error' = error
               /\ fieldnames' =
                      <<time_offset_column>> \o sort_fieldnames(fieldnames_list)
    /\ UNCHANGED <<dir_exists, files, json_files, idx, attempted, warnings,
                   flattened_data_list, output, csv_header, csv_rows, purevars>>

\* lines 136-141: mkdir, open(output_file, 'w') and writeheader
OpenOutput ==
    /\ pc = "open"
    /\ \/ /\ pc' = "rows"
          /\ output' = "open"
          /\ csv_header' = fieldnames
          /\ error' = error
       \/ /\ pc' = "aborted"
          /\ error' = "OSError"
          /\ UNCHANGED <<output, csv_header>>
    /\ UNCHANGED <<dir_exists, files, json_files, idx, attempted, warnings,
                   flattened_data_list, all_fieldnames, fieldnames, csv_rows,
                   purevars>>

\* lines 143-145: one iteration of the second pass
WriteRow ==
    /\ pc = "rows"
    /\ Len(csv_rows) < Len(flattened_data_list)
    /\ csv_rows' =
          Append(csv_rows,
                 csv_row(flattened_data_list[Len(csv_rows) + 1], fieldnames))
    /\ UNCHANGED <<pc, dir_exists, files, json_files, idx, attempted, warnings,
                   flattened_data_list, all_fieldnames, fieldnames, output,
                   csv_header, error, purevars>>

\* lines 145-153: the with block closes the file and the job returns
Finish ==
    /\ pc = "rows"
    /\ Len(csv_rows) = Len(flattened_data_list)
    /\ output' = "closed"
    /\ pc' = "done"
    /\ UNCHANGED <<dir_exists, files, json_files, idx, attempted, warnings,
                   flattened_data_list, all_fieldnames, fieldnames,
                   csv_header, csv_rows, error, purevars>>

Next ==
    \/ CheckDirectory
    \/ GlobAndSort
    \/ ProcessFile
    \/ CheckAnyValid
    \/ BuildSchema
    \/ OpenOutput
    \/ WriteRow
    \/ Finish

Spec == Init /\ [][Next]_vars

----------------------------------------------------------------------------
(* chunk_audio_file (chunk_resampled.py) and the extractor on its names.   *)

\* f"{n:03d}": decimal, zero-padded to three characters
RECURSIVE PadZeros(_, _)
PadZeros(str, width) ==
    IF Len(str) >= width THEN str ELSE PadZeros(<<"0">> \o str, width)

\* f"{input_file.stem}_chunk_{i+1:03d}.wav"
chunk_filename(stem, i) ==
    stem \o <<"_", "c", "h", "u", "n", "k", "_">> \o PadZeros(StrOfInt(i + 1), 3)
         \o <<".", "w", "a", "v">>

\* the stems of the input audio files
Stems == {Concat(ss) : ss \in SeqsUpTo(Segments, MaxStemSegs)}

InitSegment ==
    /\ pc = "segment"
    /\ input_stem \in Stems
    /\ actual_chunks \in 0..MaxChunks
    /\ chunks_created = 0
    /\ chunk_files = <<>>
    /\ chunk_indices = <<>>
    /\ IdleChunk /\ IdleFlat /\ IdleKey /\ IdleJob

\* lines 45-57: one iteration of the loop, i being chunks_created; sf.write
\* writes the file or raises, and the except clause then returns 0
WriteChunk ==
    /\ pc = "segment"
    /\ chunks_created < actual_chunks
    /\ \/ /\ chunk_files' =
                Append(chunk_files, chunk_filename(input_stem, chunks_created))
          /\ chunks_created' = chunks_created + 1
          /\ pc' = pc
       \/ /\ chunks_created' = 0
          /\ pc' = "segment_failed"
          /\ chunk_files' = chunk_files
    /\ UNCHANGED <<input_stem, actual_chunks, chunk_indices,
                   chunkvars, flatvars, keyvars, jobvars>>

\* lines 59-60
FinishChunking ==
    /\ pc = "segment"
    /\ chunks_created = actual_chunks
    /\ pc' = "segmented"
    /\ UNCHANGED <<segvars, chunkvars, flatvars, keyvars, jobvars>>

\* extract_chunk_number on the name of the next chunk file written
ExtractWritten ==
    /\ pc \in {"segmented", "segment_failed"}
    /\ Len(chunk_indices) < Len(chunk_files)
    /\ chunk_indices' =
          Append(chunk_indices,
                 extract_chunk_number(chunk_files[Len(chunk_indices) + 1]))
    /\ UNCHANGED <<pc, input_stem, actual_chunks, chunks_created, chunk_files,
                   chunkvars, flatvars, keyvars, jobvars>>

NextSegment ==
    \/ WriteChunk
    \/ FinishChunking
    \/ ExtractWritten

SpecSegment == InitSegment /\ [][NextSegment]_vars

----------------------------------------------------------------------------
(* Claims about extract_chunk_number (specification SpecChunk).            *)

RECURSIVE Pow10(_)
Pow10(n) == IF n = 0 THEN 1 ELSE 10 * Pow10(n - 1)

\* str[i..j] is a maximal run of decimal digits
IsDigitRun(str, i, j) ==
    /\ 1 <= i /\ i <= j /\ j <= Len(str)
    /\ \A k \in i..j : IsReDigit(str[k])
    /\ (i = 1 \/ ~IsReDigit(str[i - 1]))
    /\ (j = Len(str) \/ ~IsReDigit(str[j + 1]))

\* the number a run of decimal digits denotes, by positional weight
RECURSIVE RunValue(_, _, _)
RunValue(str, i, j) ==
    IF i > j THEN 0
    ELSE DigitVal(str[i]) * Pow10(j - i) + RunValue(str, i + 1, j)

\* str holds lit at position i
HasAt(str, i, lit) ==
    i + Len(lit) - 1 <= Len(str) /\ SubSeq(str, i, i + Len(lit) - 1) = lit

HasDigits(str) == \E i \in 1..Len(str) : IsReDigit(str[i])

bare_marker == <<"c", "h", "u", "n", "k">>

\* positions where lit is directly followed by a digit
MarkerHits(str, lit) ==
    {i \in 1..Len(str) :
        HasAt(str, i, lit) /\ i + Len(lit) <= Len(str)
            /\ IsReDigit(str[i + Len(lit)])}

\* the value of the last maximal digit run of str
IsLastRunValue(str, n) ==
    \E i, j \in 1..Len(str) :
        /\ IsDigitRun(str, i, j)
        /\ \A k \in j + 1..Len(str) : ~IsReDigit(str[k])
        /\ n = RunValue(str, i, j)

\* C1 as stated: the result is a non-negative integer; when the filename
\* contains the marker "chunk" followed by a run of digits the result is the
\* value of that run; when the marker is absent it is the value of the last
\* digit run; without digits it is 0.
C1_MarkerIsChunk ==
    pc = "extracted" =>
        /\ chunk_number \in Nat
        /\ MarkerHits(filename, bare_marker) # {} =>
              \E i \in MarkerHits(filename, bare_marker) :
                  \E j \in 1..Len(filename) :
                      /\ IsDigitRun(filename, i + Len(bare_marker), j)
                      /\ chunk_number = RunValue(filename, i + Len(bare_marker), j)
        /\ ((\A i \in 1..Len(filename) : ~HasAt(filename, i, bare_marker))
                /\ HasDigits(filename))
              => IsLastRunValue(filename, chunk_number)
        /\ ~HasDigits(filename) => chunk_number = 0

\* C1 as amended: the marker is "chunk_", underscore included. The result is a
\* non-negative integer: the value of the digit run that directly follows the
\* leftmost "chunk_" which a digit follows; without such an occurrence, the
\* value of the last digit run; without digits, 0.
C1_MarkerIsChunkUnderscore ==
    pc = "extracted" =>
        /\ chunk_number \in Nat
        /\ MarkerHits(filename, chunk_marker) # {} =>
              \E i \in MarkerHits(filename, chunk_marker) :
                  /\ \A h \in MarkerHits(filename, chunk_marker) : i <= h
                  /\ \E j \in 1..Len(filename) :
                        /\ IsDigitRun(filename, i + Len(chunk_marker), j)
                        /\ chunk_number =
                               RunValue(filename, i + Len(chunk_marker), j)
        /\ (MarkerHits(filename, chunk_marker) = {} /\ HasDigits(filename))
              => IsLastRunValue(filename, chunk_number)
        /\ ~HasDigits(filename) => chunk_number = 0

\* C1 witness: a filename with the marker and a later digit run; the result
\* is the run after the marker
C1_Witness ==
    /\ pc = "extracted"
    /\ filename = <<"c", "h", "u", "n", "k", "_", "2", "x", "1">>
    /\ chunk_number = 2

----------------------------------------------------------------------------
(* Claims about flatten_json (specification SpecFlatten).                  *)

\* f"{parent_key}{sep}{key}" if parent_key else key
JoinPath2(parent_key, sep, key) ==
    IF parent_key # <<>> THEN parent_key \o sep \o key ELSE key

\* the key path of a dict entry under path p
JoinPath(p, k) == IF p # <<>> THEN p \o default_sep \o k ELSE k

\* the key of position i (1-based) of an array at key path p
ElementKey(p, i) == p \o <<"_">> \o StrOfInt(i)

\* the arrays of v, each with its key path, v being found at key path p
RECURSIVE ArraysIn(_, _)
ArraysIn(v, p) ==
    IF v.ty = "obj"
    THEN UNION {ArraysIn(v.el[i], JoinPath(p, v.ks[i])) : i \in 1..Len(v.el)}
    ELSE IF v.ty = "arr"
    THEN {<<p, v>>}
            \cup UNION {ArraysIn(v.el[i], ElementKey(p, i)) : i \in 1..Len(v.el)}
    ELSE {}

\* the arrays of a document; a top-level array has the key path "item"
ArraysOf(doc) == ArraysIn(doc, IF doc.ty = "arr" THEN item_prefix ELSE <<>>)

\* mapping m holds every entry of mapping e
Holds(m, e) == \A k \in DOMAIN e : k \in DOMAIN m /\ m[k] = e[k]

\* m records the flattening of element v under key k
RecordedUnder(m, v, k) ==
    IF IsContainer(v) THEN Holds(m, flatten_json(v, k, default_sep))
    ELSE k \in DOMAIN m /\ m[k] = v

\* every element of every array is recorded under its original position
ElementsRecorded ==
    \A pa \in ArraysOf(data) :
        \A i \in 1..Len(pa[2].el) :
            RecordedUnder(items, pa[2].el[i], ElementKey(pa[1], i))

\* the scalar leaves of v
RECURSIVE Leaves(_)
RECURSIVE LeavesOfAll(_)
LeavesOfAll(vs) == IF Len(vs) = 0 THEN 0 ELSE Leaves(vs[1]) + LeavesOfAll(Tail(vs))
Leaves(v) == IF IsContainer(v) THEN LeavesOfAll(v.el) ELSE 1

\* no two scalar leaves of the document were written to one key
NoKeyCollision == Cardinality(DOMAIN items) = Leaves(data)

\* C2 as stated: for every array at key path p and every position i, the
\* flattening of element i is recorded under the key p_(i+1).
C2_ElementsAtOriginalPosition == pc = "flattened" => ElementsRecorded

\* C2 as amended: the same, for documents in which no two scalar leaves
\* flatten to one key (otherwise the later write replaces the earlier).
C2_ElementsAtOriginalPositionNoCollision ==
    (pc = "flattened" /\ NoKeyCollision) => ElementsRecorded

\* C2 witness: {"a": ["b", "a"]} gives a_1 = "b" and a_2 = "a"
C2_Witness ==
    /\ pc = "flattened"
    /\ data = JObj(<< <<"a">> >>, <<JArr(<<JStr(<<"b">>), JStr(<<"a">>)>>)>>)
    /\ items = [k \in {<<"a", "_", "1">>, <<"a", "_", "2">>} |->
                   IF k = <<"a", "_", "1">> THEN JStr(<<"b">>) ELSE JStr(<<"a">>)]

\* C3: every value of the mapping flatten_json returns is a JSON scalar.
C3_ValuesAreScalars ==
    pc = "flattened" => \A k \in DOMAIN items : items[k].ty \in ScalarTypes

\* C3 witness: a list nested in a list has been flattened to two scalars
C3_Witness ==
    /\ pc = "flattened"
    /\ data.ty = "arr"
    /\ \E i \in 1..Len(data.el) : data.el[i].ty = "arr"
    /\ Cardinality(DOMAIN items) >= 2
    /\ \A k \in DOMAIN items : items[k].ty \in ScalarTypes

\* flatten_json with every array visited in original index order instead of
\* the value-sorted order
RECURSIVE index_order_flatten(_, _, _)

IndexOrder(lst) == [i \in 1..Len(lst) |-> i]

RECURSIVE IndexOrderList(_, _, _, _, _)
IndexOrderList(acc, lst, k, base, sep) ==
    IF k > Len(lst) THEN acc
    ELSE LET list_key == ListKey(base, IndexOrder(lst), k)
             acc2 == IF IsContainer(lst[k])
                     THEN Update(acc, index_order_flatten(lst[k], list_key, sep))
                     ELSE Put(acc, list_key, lst[k])
         IN  IndexOrderList(acc2, lst, k + 1, base, sep)

RECURSIVE IndexOrderDict(_, _, _, _, _)
IndexOrderDict(acc, d, k, parent_key, sep) ==
    IF k > Len(d.ks) THEN acc
    ELSE LET value == d.el[k]
             new_key == JoinPath2(parent_key, sep, d.ks[k])
             acc2 == IF value.ty = "obj"
                     THEN Update(acc, index_order_flatten(value, new_key, sep))
                     ELSE IF value.ty = "arr"
                     THEN IndexOrderList(acc, value.el, 1, new_key, sep)
                     ELSE Put(acc, new_key, value)
         IN  IndexOrderDict(acc2, d, k + 1, parent_key, sep)

index_order_flatten(v, parent_key, sep) ==
    IF v.ty = "obj" THEN IndexOrderDict(EmptyDict, v, 1, parent_key, sep)
    ELSE IF v.ty = "arr"
    THEN IndexOrderList(EmptyDict, v.el, 1,
                        IF parent_key # <<>> THEN parent_key ELSE item_prefix, sep)
    ELSE Put(EmptyDict, parent_key, v)

\* some array of v is visited in an order other than its index order
RECURSIVE Reordered(_)
Reordered(v) ==
    \/ v.ty = "arr" /\ sorted_items(v.el) # IndexOrder(v.el)
    \/ IsContainer(v) /\ \E i \in 1..Len(v.el) : Reordered(v.el[i])

\* C15: with the default separator the mapping flatten_json returns is the
\* mapping that flattening with every array visited in original index order
\* returns.
C15_VisitingOrderIrrelevant ==
    pc = "flattened" => items = index_order_flatten(data, <<>>, default_sep)

\* C15 witness: ["b", "a"] is visited as "a" then "b" and flattens to what
\* the index order gives
C15_Witness ==
    /\ pc = "flattened"
    /\ data = JArr(<<JStr(<<"b">>), JStr(<<"a">>)>>)
    /\ Reordered(data)
    /\ items = index_order_flatten(data, <<>>, default_sep)


----------------------------------------------------------------------------
(* Claims about json_directory_to_csv (specification Spec).                *)

\* the job has reached the write step
AtWriteStep == pc \in {"open", "rows", "done"}

ParsedNames == {n \in DOMAIN files : files[n].status = "ok"}
FailedNames == {n \in DOMAIN files : files[n].status # "ok"}

\* the keys the documents of the directory flatten to, the reserved column
\* left out
KeysOfDirectory ==
    UNION {DOMAIN flatten_json(files[n].doc, <<>>, default_sep) : n \in ParsedNames}
        \ {time_offset_column}

\* natural_sort_key(a) <= natural_sort_key(b)
NaturalLeq(a, b) ==
    /\ ~natural_sort_key(a).raised
    /\ ~natural_sort_key(b).raised
    /\ KeyCmp(natural_sort_key(a).toks, natural_sort_key(b).toks) \in {"lt", "eq"}

\* C4: in every job that reaches the write step the header is a sequence of
\* unique names, the time-offset column first, the rest exactly the union of
\* the records' keys other than that column, in non-decreasing order of
\* natural_sort_key.
C4_Schema ==
    AtWriteStep =>
        /\ Len(fieldnames) >= 1
        /\ fieldnames[1] = time_offset_column
        /\ \A i, j \in 1..Len(fieldnames) : fieldnames[i] = fieldnames[j] => i = j
        /\ Range(Tail(fieldnames)) = KeysOfDirectory
        /\ \A i, j \in 2..Len(fieldnames) :
              i < j => NaturalLeq(fieldnames[i], fieldnames[j])

\* C4 witness: a finished job whose header puts x2 before x10
C4_Witness ==
    /\ pc = "done"
    /\ \E i, j \in 2..Len(fieldnames) :
          /\ i < j
          /\ fieldnames[i] = <<"x", "2">>
          /\ fieldnames[j] = <<"x", "1", "0">>

\* C5: the header is a function of the set of column names: every iteration
\* order of the key-union set (and every listing order of the directory)
\* gives the header the job computed, also for names with equal sort keys.
C5_SchemaOrderIndependent ==
    AtWriteStep =>
        \A order \in Orderings(KeysOfDirectory) :
            fieldnames = <<time_offset_column>> \o sort_fieldnames(order)

\* the header is order-independent once no two columns have equal sort keys
C5_SchemaOrderIndependentWithoutTies ==
    (AtWriteStep /\ \A a, b \in KeysOfDirectory :
                        natural_sort_key(a) = natural_sort_key(b) => a = b) =>
        \A order \in Orderings(KeysOfDirectory) :
            fieldnames = <<time_offset_column>> \o sort_fieldnames(order)

\* C6: in every job that completes, the number of data rows is the number of
\* candidate files minus the number that failed to parse, each failed file
\* having been warned about.
C6_RowCount ==
    pc = "done" =>
        /\ Len(csv_rows) = Cardinality(DOMAIN files) - Cardinality(FailedNames)
        /\ Range(warnings) = FailedNames
        /\ Len(warnings) = Cardinality(FailedNames)

\* C6 witness: a finished job of three files, one of which failed
C6_Witness ==
    /\ pc = "done"
    /\ Cardinality(DOMAIN files) = 3
    /\ Cardinality(FailedNames) = 1
    /\ Len(csv_rows) = 2

\* the candidate files that parsed, in processing order
ParsedInOrder == SelectSeq(json_files, LAMBDA n : files[n].status = "ok")

\* the number in the time-offset cell of a row
OffsetOf(row) == IntOf(row[time_offset_column].txt)

\* C7: the rows are in ascending ChunkIndex order of their source files,
\* whatever the listing order was: row i comes from the i-th parsed file in
\* ChunkIndex order, consecutive rows have non-decreasing ChunkIndex and
\* time offset, and at the end every parsed file has its row.
C7_RowsInChunkOrder ==
    pc \in {"rows", "done"} =>
        /\ Len(csv_rows) <= Len(ParsedInOrder)
        /\ pc = "done" => Len(csv_rows) = Cardinality(ParsedNames)
        /\ \A i \in 1..Len(csv_rows) :
              csv_rows[i] =
                  csv_row(flattened_record(ParsedInOrder[i], files[ParsedInOrder[i]]),
                          csv_header)
        /\ \A i \in 1..Len(csv_rows) - 1 :
              /\ extract_chunk_number(ParsedInOrder[i])
                    <= extract_chunk_number(ParsedInOrder[i + 1])
              /\ OffsetOf(csv_rows[i]) <= OffsetOf(csv_rows[i + 1])

\* C7 witness: three rows, offsets 0, 1, 1: two files share ChunkIndex 2
C7_Witness ==
    /\ pc = "done"
    /\ Len(csv_rows) = 3
    /\ OffsetOf(csv_rows[1]) = 0
    /\ OffsetOf(csv_rows[2]) = 1
    /\ OffsetOf(csv_rows[3]) = 1

\* C8: every row has exactly one cell per header column, the record's value
\* where the record has the column and the empty string elsewhere, and no
\* record has a key outside the header.
C8_Cells ==
    pc \in {"rows", "done"} =>
        \A i \in 1..Len(csv_rows) :
            LET record == flattened_data_list[i]
            IN  /\ DOMAIN csv_rows[i] = Range(csv_header)
                /\ DOMAIN record \subseteq Range(csv_header)
                /\ \A c \in Range(csv_header) :
                      csv_rows[i][c] =
                          IF c \in DOMAIN record THEN record[c] ELSE EmptyCell

\* C8 witness: two rows, each with an empty cell in a column the other fills
C8_Witness ==
    /\ pc = "done"
    /\ Len(csv_rows) = 2
    /\ \E c, d \in Range(csv_header) :
          /\ c \in DOMAIN flattened_data_list[1]
          /\ c \notin DOMAIN flattened_data_list[2]
          /\ d \in DOMAIN flattened_data_list[2]
          /\ d \notin DOMAIN flattened_data_list[1]
          /\ csv_rows[2][c] = EmptyCell
          /\ csv_rows[1][d] = EmptyCell
          /\ csv_rows[1][c] # EmptyCell
          /\ csv_rows[2][d] # EmptyCell

\* C9: a file that fails to parse is skipped and the remaining files are
\* still attempted; the job aborts with NoValidDocuments exactly when every
\* candidate file failed, and then after attempting them all; the aborts for
\* a missing directory and for no matching files read no file.
C9_ParseFailures ==
    /\ error \in {"InputDirectoryMissing", "NoMatchingFiles"} => attempted = <<>>
    /\ error = "NoValidDocuments" =>
          /\ DOMAIN files # {}
          /\ ParsedNames = {}
          /\ Range(attempted) = DOMAIN files
    /\ (pc \in {"schema", "open", "rows", "done", "aborted"}
            /\ DOMAIN files # {} /\ ParsedNames = {}) =>
          error = "NoValidDocuments"
    /\ pc = "first_pass" => error = "none"
    /\ (pc \in {"schema", "open", "rows", "done"}
            \/ (pc = "aborted" /\ error \in {"ValueError", "OSError"})) =>
          /\ Range(attempted) = DOMAIN files
          /\ Len(attempted) = Cardinality(DOMAIN files)
          /\ Range(warnings) = FailedNames
          /\ Len(flattened_data_list) = Cardinality(ParsedNames)

\* C9 witness: the first file attempted failed, a later one parsed, and the
\* job finished
C9_Witness ==
    /\ pc = "done"
    /\ Len(attempted) >= 2
    /\ attempted[1] \in FailedNames
    /\ attempted[Len(attempted)] \in ParsedNames
    /\ error = "none"

\* max(0, n - 1), by cases
OffsetOfChunk(n) == IF n >= 1 THEN n - 1 ELSE 0

\* C11: the time-offset cell of every row written is max(0, ChunkIndex - 1)
\* of the row's source filename, whatever the document contains, a key named
\* '5_sec_time_offset' of the document included.
C11_TimeOffsetCell ==
    pc \in {"rows", "done"} =>
        \A i \in 1..Len(csv_rows) :
            /\ i <= Len(ParsedInOrder)
            /\ csv_rows[i][time_offset_column] =
                  JNum(OffsetOfChunk(extract_chunk_number(ParsedInOrder[i])))

\* C11 witness: a row written for chunk_002.json, whose document has its own
\* '5_sec_time_offset' of 9, holds offset 1
C11_Witness ==
    /\ pc = "done"
    /\ \E i \in 1..Len(csv_rows) :
          /\ ParsedInOrder[i] =
                <<"c", "h", "u", "n", "k", "_", "0", "0", "2", ".", "j", "s", "o", "n">>
          /\ files[ParsedInOrder[i]].doc = JObj(<< time_offset_column >>, <<JNum(9)>>)
          /\ csv_rows[i][time_offset_column] = JNum(1)

\* C13: the output file is opened only after every candidate file has been
\* attempted and the header is fixed, and nothing is written before; in a run
\* that aborts with InputDirectoryMissing, NoMatchingFiles or
\* NoValidDocuments the output path is as it was before the run.
C13_OutputAfterFirstPass ==
    /\ error \in {"InputDirectoryMissing", "NoMatchingFiles", "NoValidDocuments"} =>
          /\ output \in {"absent", "stale"}
          /\ csv_header = <<>>
          /\ csv_rows = <<>>
    /\ output \in {"open", "closed"} =>
          /\ pc \in {"rows", "done"}
          /\ idx = Len(json_files)
          /\ Range(attempted) = DOMAIN files
          /\ Len(fieldnames) >= 1
          /\ csv_header = fieldnames
    /\ output \notin {"open", "closed"} => (csv_header = <<>> /\ csv_rows = <<>>)

\* C13 witness: every file of a directory was attempted and failed, the job
\* aborted, and the output file of an earlier run is untouched
C13_Witness ==
    /\ pc = "aborted"
    /\ error = "NoValidDocuments"
    /\ Len(attempted) >= 2
    /\ output = "stale"

----------------------------------------------------------------------------
(* Claims about natural_sort_key (specification SpecKey).                  *)

\* a and b are equal except for one maximal run of decimal digits, and the
\* run of a has the smaller value
SmallerInOneRun(a, b) ==
    \E i \in 1..Len(a) : \E j \in i..Len(a) : \E l \in i..Len(b) :
        /\ IsDigitRun(a, i, j)
        /\ IsDigitRun(b, i, l)
        /\ SubSeq(a, 1, i - 1) = SubSeq(b, 1, i - 1)
        /\ SubSeq(a, j + 1, Len(a)) = SubSeq(b, l + 1, Len(b))
        /\ RunValue(a, i, j) < RunValue(b, i, l)

\* a and b are distinct and differ only in the case of letters
DifferInCaseOnly(a, b) ==
    /\ a # b
    /\ Len(a) = Len(b)
    /\ \A i \in 1..Len(a) :
          a[i] # b[i] => {a[i], b[i]} \in {{"a", "A"}, {"b", "B"}, {"n", "N"},
                                             {"t", "T"}, {"y", "Y"}}

\* the order the keys give s and t
KeysOrdered ==
    /\ SmallerInOneRun(s, t) => KeyCmp(key_s.toks, key_t.toks) = "lt"
    /\ DifferInCaseOnly(s, t) => key_s.toks = key_t.toks

\* C10: of two strings equal except for one digit run, the one whose run has
\* the smaller value gets the smaller key, and two strings differing only in
\* letter case get equal keys.
C10_NaturalOrder ==
    pc = "keyed" =>
        /\ (SmallerInOneRun(s, t) \/ DifferInCaseOnly(s, t)) =>
              (~key_s.raised /\ ~key_t.raised)
        /\ KeysOrdered

\* what holds of the code: the same, for the strings the key function
\* returns a key for
C10_NaturalOrderWhenKeyed ==
    (pc = "keyed" /\ ~key_s.raised /\ ~key_t.raised) => KeysOrdered

\* the tokens at the same position of the two keys have the same type: text
\* at even and integer at odd 0-based positions
SameTypeTokens ==
    /\ \A i \in 1..Len(key_s.toks) :
          key_s.toks[i].kind = (IF i % 2 = 1 THEN "str" ELSE "int")
    /\ \A i \in 1..Len(key_t.toks) :
          key_t.toks[i].kind = (IF i % 2 = 1 THEN "str" ELSE "int")
    /\ KeyCmp(key_s.toks, key_t.toks) # "TypeError"

\* C14: for any two column names the key function returns two keys whose
\* tokens at the same position have the same type, so sorting them by
\* natural_sort_key cannot fail.
C14_SortCannotFail ==
    pc = "keyed" => (~key_s.raised /\ ~key_t.raised /\ SameTypeTokens)

\* what holds of the code: no int is compared with a str once both keys are
\* returned
C14_SameTypeTokensWhenKeyed ==
    (pc = "keyed" /\ ~key_s.raised /\ ~key_t.raised) => SameTypeTokens


----------------------------------------------------------------------------
(* Claims about the chunk file names (specification SpecSegment).          *)

\* the chunk file written for 0-based position i yields index i + 1
IndicesRoundTrip ==
    \A k \in 1..Len(chunk_indices) :
        /\ chunk_indices[k] = k
        /\ calculate_time_offset(chunk_indices[k]) = k - 1

\* C12: for every input audio file and every 0-based chunk position i,
\* extract_chunk_number of the name written for that chunk is i + 1, and its
\* time offset is i.
C12_ChunkNamesRoundTrip == IndicesRoundTrip

\* what holds of the code: the same, for stems in which "chunk_" is nowhere
\* directly followed by a digit
C12_ChunkNamesRoundTripPlainStem ==
    MarkerHits(input_stem, chunk_marker) = {} => IndicesRoundTrip

====
